---- MODULE Spec2Model ----
(***************************************************************************)
(* Model of logaut/helpers.py:                                             *)
(*   - RegexConstrainedString: a str subclass whose text is validated      *)
(*     against the class attribute REGEX by __init__;                      *)
(*   - temporary_directory: a generator-based context manager around       *)
(*     tempfile.TemporaryDirectory.                                        *)
(* SpecStr explores sequences of constructions, SpecTmp interleavings of   *)
(* temporary_directory scopes.                                             *)
(***************************************************************************)
EXTENDS Integers, Sequences, FiniteSets, TLC

VARIABLES
    objs,         \* objs[i]: the live RegexConstrainedString instance i, [cls, text], or Free
    validations,  \* validations[i]: number of times __init__ validated objs[i]
    last,         \* record describing the last construction call and its outcome
    fs,           \* file system: fs[n] = -1 when n does not exist, else number of entries under n
    scope,        \* scope[s]: state of the temporary_directory invocation of caller s
    pending       \* names whose TemporaryDirectory object is garbage with its finalizer still armed

vars == <<objs, validations, last, fs, scope, pending>>
strVars == <<objs, validations, last>>
tmpVars == <<fs, scope, pending>>

----------------------------------------------------------------------------
(* Bounds *)
MaxLen == 2           \* longest text tried
MaxValidations == 2   \* cap on the per-instance validation counter
MaxEntries == 1       \* files a scope body creates in its directory
MaxRounds == 2        \* scope invocations per caller

----------------------------------------------------------------------------
(* Texts and regular expressions *)

NL == "\n"
Chars == {"a", "b", NL}

RECURSIVE TextsOfLen(_)
TextsOfLen(n) ==
    IF n = 0 THEN {<<>>}
    ELSE {Append(t, c) : t \in TextsOfLen(n - 1), c \in Chars}

Texts == UNION {TextsOfLen(n) : n \in 0..MaxLen}

\* A compiled pattern: a sequence of items (atom, repetition) and the flags.
\* An atom is "." (dot = TRUE) or a character class (set).
Dot == [dot |-> TRUE, set |-> {}]
Class(S) == [dot |-> FALSE, set |-> S]
Item(atom, rep) == [atom |-> atom, rep |-> rep]
Compile(items, flags) == [items |-> items, flags |-> flags]

\* characters one atom accepts: "." excludes the newline unless DOTALL is set
AtomChars(atom, flags) ==
    IF atom.dot
    THEN IF "DOTALL" \in flags THEN Chars ELSE Chars \ {NL}
    ELSE atom.set

\* positions where one item, started at position i of text, can end
ItemEnds(it, flags, text, i) ==
    LET cs == AtomChars(it.atom, flags)
        run == {j \in i..(Len(text) + 1) : \A m \in i..(j - 1) : text[m] \in cs}
    IN CASE it.rep = "one"  -> {j \in run : j = i + 1}
         [] it.rep = "star" -> run
         [] it.rep = "plus" -> {j \in run : j > i}

\* positions where items k.. of the pattern, started at position i, can end
RECURSIVE MatchEnds(_, _, _, _)
MatchEnds(re, k, text, i) ==
    IF k > Len(re.items) THEN {i}
    ELSE UNION {MatchEnds(re, k + 1, text, j) : j \in ItemEnds(re.items[k], re.flags, text, i)}

\* re.match: some prefix of the text matches
match(re, text) == MatchEnds(re, 1, text, 1) # {}

\* re.fullmatch: the whole text matches
fullmatch(re, text) == (Len(text) + 1) \in MatchEnds(re, 1, text, 1)

----------------------------------------------------------------------------
(* Classes *)

Base == "RegexConstrainedString"
Classes == {Base, "Word", "SubWord"}

\* direct base class of a specialized variant
Parent(c) == IF c = "SubWord" THEN "Word" ELSE Base

RECURSIVE issubclass(_, _)
issubclass(c, d) ==
    IF c = d THEN TRUE
    ELSE IF c = Base THEN FALSE
    ELSE issubclass(Parent(c), d)

\* variant: the base pattern compiled without re.DOTALL
REGEXNoFlags(c) ==
    CASE c = Base      -> Compile(<<Item(Dot, "star")>>, {})
      [] c = "Word"    -> Compile(<<Item(Class({"a", "b"}), "plus")>>, {})
      [] c = "SubWord" -> Compile(<<Item(Class({"a"}), "plus")>>, {})

\* the REGEX class attribute; the base class compiles ".*" with DOTALL,
\* Word is a subclass with "[a-z]+" and SubWord a subclass of Word with "a+"
REGEX(c) ==
    CASE c = Base      -> Compile(<<Item(Dot, "star")>>, {"DOTALL"})
      [] c = "Word"    -> Compile(<<Item(Class({"a", "b"}), "plus")>>, {})
      [] c = "SubWord" -> Compile(<<Item(Class({"a"}), "plus")>>, {})

NoRegex == Compile(<<>>, {})
----------------------------------------------------------------------------
(* RegexConstrainedString *)

Ids == {"o1", "o2"}
Free == [cls |-> "free", text |-> <<>>]

\* the values a caller passes: a plain str, or a live instance
StrValue(t) == [kind |-> "str", id |-> "none", text |-> t]
ObjValue(i) == [kind |-> "obj", id |-> i, text |-> objs[i].text]
Values == {StrValue(t) : t \in Texts} \cup {ObjValue(i) : i \in {j \in Ids : objs[j] # Free}}

\* type(value)
type(value) == IF value.kind = "obj" THEN objs[value.id].cls ELSE "str"

\* variant: isinstance(value, cls) in place of the exact type test
FastPathIsInstance(cls, value) ==
    value.kind = "obj" /\ issubclass(type(value), cls)

\* variant: __new__ without the fast path
FastPathNever(cls, value) == FALSE

\* __new__: "if type(value) == cls: return value"
FastPath(cls, value) ==
    value.kind = "obj" /\ type(value) = cls

\* str.__new__(cls, value): a new instance of cls holding the text of value
StrNew(cls, value) == [cls |-> cls, text |-> value.text]

\* variant: REGEX.match in place of REGEX.fullmatch
ValidatesPrefix(self) == match(REGEX(self.cls), self.text)

\* __init__: "self.REGEX.fullmatch(self)", REGEX looked up on type(self)
Validates(self) == fullmatch(REGEX(self.cls), self.text)

\* variant: the error reports the base class pattern instead of self.REGEX
handle_no_match_base(self) ==
    [type |-> "ValueError", data |-> self.text, regex |-> REGEX(Base)]

\* _handle_no_match: the ValueError, formatted from self and self.REGEX
handle_no_match(self) ==
    [type |-> "ValueError", data |-> self.text, regex |-> REGEX(self.cls)]

NoError == [type |-> "none", data |-> <<>>, regex |-> NoRegex]

NoCall ==
    [op |-> "none", cls |-> "none", value |-> StrValue(<<>>), vtype |-> "none",
     obj |-> "none", fresh |-> FALSE, error |-> NoError]

\* cls(value): type.__call__ runs __new__, then __init__ on what __new__ returned
\* (an instance of cls in both branches of __new__)
Construct(cls, value) ==
    LET fast == FastPath(cls, value)
        free == {i \in Ids : objs[i] = Free}
    IN  /\ fast => validations[value.id] < MaxValidations
        /\ ~fast => free # {}
        /\ LET inst == IF fast THEN value.id ELSE CHOOSE i \in free : TRUE
               self == IF fast THEN objs[value.id] ELSE StrNew(cls, value)
               call == [op |-> "construct", cls |-> cls, value |-> value,
                        vtype |-> type(value), obj |-> "none", fresh |-> ~fast,
                        error |-> NoError]
           IN  IF Validates(self)
               THEN /\ objs' = [objs EXCEPT ![inst] = self]
                    /\ validations' = [validations EXCEPT ![inst] = @ + 1]
                    /\ last' = [call EXCEPT !.obj = inst]
               ELSE \* the error leaves __init__; a new instance is never bound
                    /\ objs' = objs
                    /\ validations' = [validations EXCEPT ![inst] = IF fast THEN @ + 1 ELSE @]
                    /\ last' = [call EXCEPT !.error = handle_no_match(self)]
        /\ UNCHANGED tmpVars

\* the caller drops its reference to an instance
Drop(i) ==
    /\ objs[i] # Free
    /\ objs' = [objs EXCEPT ![i] = Free]
    /\ validations' = [validations EXCEPT ![i] = 0]
    /\ last' = NoCall
    /\ UNCHANGED tmpVars

----------------------------------------------------------------------------
(* temporary_directory *)

Scopes == {"s1", "s2"}        \* callers, each running "with temporary_directory() as p: body"
Names == {"d1", "d2", "d3"}   \* directory names tempfile can hand out

IdleScope ==
    [pc |-> "idle", path |-> "none", rounds |-> 0, steps |-> 0, exit |-> "none",
     cleanup |-> "none", calls |-> 0, raised |-> "none", gone |-> FALSE]

\* variant: a name is handed out without checking that it is new
mkdtempAny(fsys) == Names

\* tempfile.TemporaryDirectory(): mkdtemp creates a directory under a name
\* that does not exist yet
mkdtemp(fsys) == {n \in Names : fsys[n] = -1}

\* variant: a deletion that empties the directory and leaves it in place
rmtreeContents(fsys, n) == [fsys EXCEPT ![n] = 0]

\* a deletion that succeeds removes the directory and everything under it
rmtree(fsys, n) == [fsys EXCEPT ![n] = -1]

\* a deletion that fails leaves the directory with some of its entries
rmtreeFailed(fsys, n) == {[fsys EXCEPT ![n] = k] : k \in 0..fsys[n]}

\* what temp_dir.cleanup() can do: succeed, or raise an OSError of some kind
CleanupOutcomes == {"ok", "PermissionError", "FileNotFoundError", "OSError"}

\* variant: "except OSError: pass"
SuppressedOSError(e) == e \in {"PermissionError", "FileNotFoundError", "OSError"}

\* "except PermissionError: pass"
Suppressed(e) == e = "PermissionError"

\* temp_dir = TemporaryDirectory(); temp_path = Path(temp_dir.name); yield temp_path
Enter(s) ==
    /\ scope[s].pc \in {"idle", "exited"}
    /\ scope[s].rounds < MaxRounds
    /\ \E n \in mkdtemp(fs) :
        /\ fs' = [fs EXCEPT ![n] = 0]
        /\ scope' = [scope EXCEPT ![s] =
                [IdleScope EXCEPT !.pc = "body", !.path = n, !.rounds = scope[s].rounds + 1]]
    /\ UNCHANGED <<pending, strVars>>

\* the body of the with statement creates an entry under the yielded path
BodyWrite(s) ==
    /\ scope[s].pc = "body"
    /\ fs[scope[s].path] >= 0
    /\ fs[scope[s].path] < MaxEntries
    /\ fs' = [fs EXCEPT ![scope[s].path] = @ + 1]
    /\ scope' = [scope EXCEPT ![s].steps = @ + 1]
    /\ UNCHANGED <<pending, strVars>>

\* the body ends normally: the generator resumes after the yield and runs
\* "try: temp_dir.cleanup() / except PermissionError: pass"
ExitNormal(s) ==
    /\ scope[s].pc = "body"
    /\ \E r \in CleanupOutcomes :
        /\ fs' \in (IF r = "ok" THEN {rmtree(fs, scope[s].path)}
                    ELSE rmtreeFailed(fs, scope[s].path))
        /\ scope' = [scope EXCEPT ![s].pc = "exited", ![s].exit = "normal",
                        ![s].cleanup = r, ![s].calls = @ + 1,
                        ![s].raised = IF r = "ok" \/ Suppressed(r) THEN "none" ELSE r,
                        ![s].gone = (fs'[scope[s].path] = -1)]
    /\ UNCHANGED <<pending, strVars>>

\* the implicit cleanup of a TemporaryDirectory object that became garbage:
\* its finalizer deletes the directory; a failure there reaches nobody
Finalized(fsys, n) == {rmtree(fsys, n)} \cup rmtreeFailed(fsys, n)

\* variant: the yield inside try/finally, the release step run on an error too
ExitErrorFinally(s) ==
    /\ scope[s].pc = "body"
    /\ \E r \in CleanupOutcomes :
        /\ fs' \in (IF r = "ok" THEN {rmtree(fs, scope[s].path)}
                    ELSE rmtreeFailed(fs, scope[s].path))
        /\ scope' = [scope EXCEPT ![s].pc = "exited", ![s].exit = "error",
                        ![s].cleanup = r, ![s].calls = @ + 1,
                        ![s].raised = IF r = "ok" \/ Suppressed(r) THEN "BodyError" ELSE r,
                        ![s].gone = (fs'[scope[s].path] = -1)]
    /\ UNCHANGED <<pending, strVars>>

\* the body raises: the error is thrown into the generator at the yield, which
\* no try statement encloses, so it leaves the generator and the lines after
\* the yield are not run. temp_dir becomes garbage with its finalizer armed:
\* the finalizer runs at once (reference counting) or at some later collection.
ExitError(s) ==
    /\ scope[s].pc = "body"
    /\ \E now \in BOOLEAN :
        /\ IF now
           THEN fs' \in Finalized(fs, scope[s].path) /\ pending' = pending
           ELSE fs' = fs /\ pending' = pending \cup {scope[s].path}
        /\ scope' = [scope EXCEPT ![s].pc = "exited", ![s].exit = "error",
                        ![s].raised = "BodyError",
                        ![s].gone = (fs'[scope[s].path] = -1)]
    /\ UNCHANGED strVars

\* a later garbage collection runs the finalizer of a dead TemporaryDirectory
Finalize(n) ==
    /\ n \in pending
    /\ fs' \in Finalized(fs, n)
    /\ pending' = pending \ {n}
    /\ UNCHANGED <<scope, strVars>>

----------------------------------------------------------------------------
(* Specifications *)

\* nothing constructed, no scope entered, no directory created
Init ==
    /\ objs = [i \in Ids |-> Free]
    /\ validations = [i \in Ids |-> 0]
    /\ last = NoCall
    /\ fs = [n \in Names |-> -1]
    /\ scope = [s \in Scopes |-> IdleScope]
    /\ pending = {}

NextStr ==
    \/ \E cls \in Classes : \E value \in Values : Construct(cls, value)
    \/ \E i \in Ids : Drop(i)

SpecStr == Init /\ [][NextStr]_vars

NextTmp ==
    \/ \E s \in Scopes : Enter(s)
    \/ \E s \in Scopes : BodyWrite(s)
    \/ \E s \in Scopes : ExitNormal(s)
    \/ \E s \in Scopes : ExitError(s)
    \/ \E n \in Names : Finalize(n)

SpecTmp == Init /\ [][NextTmp]_vars

----------------------------------------------------------------------------
(* Properties of RegexConstrainedString, checked under SpecStr *)

Constructed == last.op = "construct"
Returned == Constructed /\ last.obj # "none"
Raised == Constructed /\ last.error # NoError

\* C1: every live instance, and in particular the one the last construction
\* of variant V returned (new or by the fast path), has a text that V's
\* pattern matches in its entirety.
C1_FullMatchInvariant ==
    /\ \A i \in Ids : objs[i] # Free => fullmatch(REGEX(objs[i].cls), objs[i].text)
    /\ Returned =>
        /\ objs[last.obj].cls = last.cls
        /\ fullmatch(REGEX(last.cls), objs[last.obj].text)

\* a Word came back by the fast path while another instance is live
C1_Witness ==
    /\ Returned /\ ~last.fresh /\ last.cls = "Word"
    /\ \E j \in Ids \ {last.obj} : objs[j] # Free

\* C2: constructing a specialized variant fails exactly when the text does not
\* fully match the variant's pattern; the failure is the ValueError carrying
\* the text and that pattern and no instance is returned; otherwise an
\* instance is returned and nothing is raised.
C2_MismatchRaises ==
    (Constructed /\ last.cls # Base) =>
        IF fullmatch(REGEX(last.cls), last.value.text)
        THEN last.obj # "none" /\ last.error = NoError
        ELSE /\ last.obj = "none"
             /\ last.error.type = "ValueError"
             /\ last.error.data = last.value.text
             /\ last.error.regex = REGEX(last.cls)

\* a text with a matching prefix was rejected by Word
C2_Witness ==
    /\ Raised /\ last.cls = "Word"
    /\ match(REGEX("Word"), last.value.text)
    /\ last.value.text = <<"a", NL>>

SameClassCall == Constructed /\ last.value.kind = "obj" /\ last.vtype = last.cls

C8_DefaultAcceptsAll ==
    (Constructed /\ last.cls = Base) =>
        /\ last.error = NoError
        /\ last.obj # "none"
        /\ objs[last.obj] = [cls |-> Base, text |-> last.value.text]

\* the default variant was built from a plain text holding a newline
C8_Witness ==
    /\ Returned /\ last.cls = Base /\ last.value.kind = "str"
    /\ last.value.text = <<"a", NL>>

\* C10: the fast path is taken only for an input whose type is exactly the
\* target variant; constructing A from an instance of another variant gives
\* a new instance of A holding the same text when A's pattern fully matches
\* it, and raises otherwise; the input instance is left as it was.
C10_NoCrossVariantFastPath ==
    /\ (Returned /\ ~last.fresh) => last.vtype = last.cls
    /\ (Constructed /\ last.value.kind = "obj" /\ last.vtype # last.cls) =>
        /\ objs[last.value.id] = [cls |-> last.vtype, text |-> last.value.text]
        /\ IF fullmatch(REGEX(last.cls), last.value.text)
           THEN /\ last.obj # "none" /\ last.fresh
                /\ last.obj # last.value.id
                /\ objs[last.obj] = [cls |-> last.cls, text |-> last.value.text]
           ELSE last.obj = "none" /\ last.error.type = "ValueError"

\* a Word instance, valid for Word, was rejected by the derived SubWord
C10_Witness ==
    /\ Raised /\ last.cls = "SubWord" /\ last.vtype = "Word"
    /\ fullmatch(REGEX("Word"), last.value.text)

----------------------------------------------------------------------------
(* Properties of temporary_directory, checked under SpecTmp *)

\* C4 as stated: when the body exits with an error, the release step still
\* runs and the directory is gone once the scope has exited.
C4_CleanupOnError ==
    \A s \in Scopes :
        scope[s].exit = "error" => (scope[s].calls = 1 /\ scope[s].gone)

\* C5: a PermissionError of the release step is swallowed, any other error
\* of the release step reaches the caller, and cleanup() is called at most
\* once per scope (exactly once when it failed).
C5_OnlyPermissionErrorSuppressed ==
    \A s \in Scopes :
        /\ scope[s].cleanup = "PermissionError" => scope[s].raised = "none"
        /\ scope[s].cleanup \in {"FileNotFoundError", "OSError"} =>
                scope[s].raised = scope[s].cleanup
        /\ scope[s].calls <= 1
        /\ scope[s].cleanup # "none" => scope[s].calls = 1

\* one scope swallowed a PermissionError, the other let an OSError through
C5_Witness ==
    /\ scope["s1"].cleanup = "PermissionError" /\ scope["s1"].raised = "none"
    /\ scope["s2"].cleanup = "OSError" /\ scope["s2"].raised = "OSError"

\* C6: an error raised in the body is the error the caller of the scope gets.
C6_BodyErrorPropagates ==
    \A s \in Scopes : scope[s].exit = "error" => scope[s].raised = "BodyError"

\* a body that had written into its directory raised
C6_Witness ==
    \E s \in Scopes :
        scope[s].exit = "error" /\ scope[s].raised = "BodyError" /\ scope[s].steps > 0

\* the yielded path is an existing, empty directory when the body starts
EmptyAtBodyStart ==
    \A s \in Scopes :
        (scope[s].pc = "body" /\ scope[s].steps = 0) => fs[scope[s].path] = 0

\* C7 as stated: the path is an empty directory when the body starts, and it
\* no longer exists after a normal scope exit.
C7_GoneAfterNormalExit ==
    /\ EmptyAtBodyStart
    /\ \A s \in Scopes : scope[s].exit = "normal" => scope[s].gone

\* C7 amended: the path is an empty directory when the body starts, and it
\* no longer exists after a normal scope exit whose deletion did not fail.
C7_GoneAfterSuccessfulCleanup ==
    /\ EmptyAtBodyStart
    /\ \A s \in Scopes :
        (scope[s].exit = "normal" /\ scope[s].cleanup = "ok") => scope[s].gone

\* a directory the body had written into was deleted on normal exit
C7_Witness ==
    \E s \in Scopes :
        /\ scope[s].exit = "normal" /\ scope[s].cleanup = "ok"
        /\ scope[s].steps > 0 /\ scope[s].gone

\* C9: scopes active at the same time hold different paths, and the directory
\* of an active scope exists and holds exactly what its own body put there,
\* whatever the other scopes entered, released or left behind.
C9_ExclusiveDirectories ==
    /\ \A s, t \in Scopes :
        (s # t /\ scope[s].pc = "body" /\ scope[t].pc = "body") =>
            scope[s].path # scope[t].path
    /\ \A s \in Scopes :
        scope[s].pc = "body" => fs[scope[s].path] = scope[s].steps

\* both scopes are active, each in a later invocation, s1 with an entry
C9_Witness ==
    /\ scope["s1"].pc = "body" /\ scope["s2"].pc = "body"
    /\ scope["s1"].rounds = 2 /\ scope["s2"].rounds = 2
    /\ scope["s1"].steps > 0
====
